---------------------------- MODULE Spec2Model ----------------------------
(***************************************************************************)
(* The game engine of spotle-tui (src/src/main.rs): the App state, guess   *)
(* evaluation (Row::from_current), the keyboard status update and the      *)
(* key-event loop of run_app.                                              *)
(*                                                                         *)
(* A character is a one-element token: "a".."z", "A".."Z", " " occupy one  *)
(* byte, "e_acute" and "e_grave" stand for the two-byte characters U+00E9  *)
(* and U+00E8.  A String is a sequence of characters; String::len() is the *)
(* number of BYTES (ByteLen), chars() walks the characters.  Positions and *)
(* attempt indices are 0-based as in the source; the i-th character of a   *)
(* String s (0-based) is s[i + 1].                                         *)
(***************************************************************************)
EXTENDS Integers, Sequences, FiniteSets, TLC

VARIABLES
    input,          \* App.input: the free-text buffer
    guesses,        \* App.guesses: Vec<Row>, indexed 0..
    correct_word,   \* App.correct_word: the secret
    current_guess,  \* App.current_guess: the attempt index
    key_status,     \* App.key_status: [CharacterState; 26], indexed 0..25
    state,          \* App.state: GameState
    mask,           \* App.mask.items: [bool; 25], indexed 0..24
    pc,             \* run_app: "running", "exited" (returned Ok) or "panicked"
    last            \* the event run_app handled last (history)

vars == <<input, guesses, correct_word, current_guess, key_status, state, mask, pc, last>>

app_vars == <<input, guesses, correct_word, current_guess, key_status, state, mask>>

-----------------------------------------------------------------------------
(* Program constants *)

\* [CharacterState; 5], (0..5), input.len() < 5, s.len() == 5
WordLen == 5

\* vec![Row::new(.., 0) .. Row::new(.., 4)]; current_guess == 5; current_guess < 5
MaxAttempts == 5

\* key_status: [CharacterState; 26]
NumLetters == 26

\* ROWS: the number of row slots the grid layout reserves (rendering only)
ROWS == 6

\* COLUMNS: the number of cells the layout gives a row (rendering only)
COLUMNS == 5

(* Bounds of the model *)

\* how many words of WordList the player types towards
NumTyped == 5

-----------------------------------------------------------------------------
(* Characters and strings *)

LowerSeq == << "a", "b", "c", "d", "e", "f", "g", "h", "i", "j", "k", "l", "m",
               "n", "o", "p", "q", "r", "s", "t", "u", "v", "w", "x", "y", "z" >>

UpperSeq == << "A", "B", "C", "D", "E", "F", "G", "H", "I", "J", "K", "L", "M",
               "N", "O", "P", "Q", "R", "S", "T", "U", "V", "W", "X", "Y", "Z" >>

Letters == { LowerSeq[i] : i \in 1..NumLetters }

TwoByteChars == { "e_acute", "e_grave" }

\* the index of a lowercase letter in key_status ('a' => 0 .. 'z' => 25)
LetterIdx(c) == (CHOOSE i \in 1..NumLetters : LowerSeq[i] = c) - 1

\* char::to_ascii_lowercase: 'A'..'Z' to 'a'..'z', every other character unchanged
to_ascii_lowercase(c) ==
    IF \E i \in 1..NumLetters : UpperSeq[i] = c
    THEN LowerSeq[CHOOSE i \in 1..NumLetters : UpperSeq[i] = c]
    ELSE c

\* the UTF-8 length of a character
len_utf8(c) == IF c \in TwoByteChars THEN 2 ELSE 1

\* String::len(): the length in bytes
RECURSIVE ByteLen(_)
ByteLen(s) == IF s = <<>> THEN 0 ELSE len_utf8(Head(s)) + ByteLen(Tail(s))

\* str::contains(char)
contains(s, c) == \E i \in 1..Len(s) : s[i] = c

\* mutant of pop: the whole buffer removed
pop_clear(s) == << >>

\* String::pop(): removes the last character, if any
pop(s) == IF s = <<>> THEN s ELSE SubSeq(s, 1, Len(s) - 1)

-----------------------------------------------------------------------------
(* CharacterState, GameState, Row, Mask *)

CharacterState == { "WrongPlace", "Correct", "NotInWord", "Unknown", "Masked" }

InProgress == [tag |-> "InProgress"]
Won == [tag |-> "Won"]
Lost(w) == [tag |-> "Lost", word |-> w]

Positions == 0..(WordLen - 1)

\* Mask::default()
DefaultMask ==
    [k \in 0..(MaxAttempts * WordLen - 1) |-> k \in {2, 6, 11, 17, 22}]

\* a Mask with no cell set
NoMask == [k \in 0..(MaxAttempts * WordLen - 1) |-> FALSE]

\* whether Mask::get_mask(row_idx, char_idx) indexes outside items
mask_out_of_range(m, row_idx, char_idx) ==
    (row_idx * WordLen) + char_idx \notin DOMAIN m

\* Mask::get_mask
get_mask(m, row_idx, char_idx) == m[(row_idx * WordLen) + char_idx]

\* mutant of RowNew: Row::default() in its place
RowNew_default(m, row_idx) ==
    [ guess |-> << >>,
      char_states |-> [x \in Positions |-> "Unknown"] ]

\* Row::new
RowNew(m, row_idx) ==
    [ guess |-> << " " >>,
      char_states |-> [x \in Positions |->
                          IF get_mask(m, row_idx, x) THEN "Masked" ELSE "Unknown"] ]

-----------------------------------------------------------------------------
(* Row::from_current: guess evaluation *)

\* the first loop: the secret zipped with the buffer; an unmasked position
\* holding the secret's character becomes Correct
RECURSIVE correct_pass(_, _, _, _, _, _)
correct_pass(cs, m, cg, cw, inp, char_idx) ==
    IF char_idx >= Len(cw) \/ char_idx >= Len(inp)
    THEN cs
    ELSE correct_pass(
            IF ~get_mask(m, cg, char_idx) /\ cw[char_idx + 1] = inp[char_idx + 1]
            THEN [cs EXCEPT ![char_idx] = "Correct"]
            ELSE cs,
            m, cg, cw, inp, char_idx + 1)

\* the second loop: an unmasked position still Unknown becomes WrongPlace when
\* the secret contains its character anywhere, NotInWord otherwise
RECURSIVE presence_pass(_, _, _, _, _, _)
presence_pass(cs, m, cg, cw, inp, char_idx) ==
    IF char_idx >= Len(inp)
    THEN cs
    ELSE presence_pass(
            IF ~get_mask(m, cg, char_idx) /\ cs[char_idx] = "Unknown"
            THEN [cs EXCEPT ![char_idx] =
                     IF contains(cw, inp[char_idx + 1]) THEN "WrongPlace" ELSE "NotInWord"]
            ELSE cs,
            m, cg, cw, inp, char_idx + 1)

\* mutant of from_current: the buffer drained before the row takes it
from_current_drained_first(m, cg, cw, inp) ==
    [ guess |-> << >>,
      char_states |->
          presence_pass(
              correct_pass([x \in Positions |-> "Unknown"], m, cg, cw, inp, 0),
              m, cg, cw, inp, 0) ]

\* Row::from_current: char_states starts as [Unknown; 5]; the row takes the
\* drained buffer as its guess
from_current(m, cg, cw, inp) ==
    [ guess |-> inp,
      char_states |->
          presence_pass(
              correct_pass([x \in Positions |-> "Unknown"], m, cg, cw, inp, 0),
              m, cg, cw, inp, 0) ]

-----------------------------------------------------------------------------
(* Keyboard status *)

\* App::get_letter_state
get_letter_state(ks, c) == IF c \in Letters THEN ks[LetterIdx(c)] ELSE "Unknown"

\* App::set_letter_state
set_letter_state(ks, c, st) ==
    IF c \in Letters THEN [ks EXCEPT ![LetterIdx(c)] = st] ELSE ks

\* mutant of key_correct_pass: only a letter still Unknown becomes Correct
RECURSIVE key_correct_pass_only_unknown(_, _, _, _, _, _)
key_correct_pass_only_unknown(ks, m, cg, cw, inp, char_idx) ==
    IF char_idx >= Len(cw) \/ char_idx >= Len(inp)
    THEN ks
    ELSE key_correct_pass_only_unknown(
            IF ~get_mask(m, cg, char_idx) /\ cw[char_idx + 1] = inp[char_idx + 1]
               /\ ks[LetterIdx(inp[char_idx + 1])] = "Unknown"
            THEN [ks EXCEPT ![LetterIdx(inp[char_idx + 1])] = "Correct"]
            ELSE ks,
            m, cg, cw, inp, char_idx + 1)

\* mutant of key_correct_pass: the mask test dropped
RECURSIVE key_correct_pass_unmasked(_, _, _, _, _, _)
key_correct_pass_unmasked(ks, m, cg, cw, inp, char_idx) ==
    IF char_idx >= Len(cw) \/ char_idx >= Len(inp)
    THEN ks
    ELSE key_correct_pass_unmasked(
            IF cw[char_idx + 1] = inp[char_idx + 1]
            THEN set_letter_state(ks, inp[char_idx + 1], "Correct")
            ELSE ks,
            m, cg, cw, inp, char_idx + 1)

\* run_app, Enter, the first keyboard loop
RECURSIVE key_correct_pass(_, _, _, _, _, _)
key_correct_pass(ks, m, cg, cw, inp, char_idx) ==
    IF char_idx >= Len(cw) \/ char_idx >= Len(inp)
    THEN ks
    ELSE key_correct_pass(
            IF ~get_mask(m, cg, char_idx) /\ cw[char_idx + 1] = inp[char_idx + 1]
            THEN set_letter_state(ks, inp[char_idx + 1], "Correct")
            ELSE ks,
            m, cg, cw, inp, char_idx + 1)

\* mutant of key_presence_pass: the Unknown test dropped, every unmasked
\* position that does not hold the secret's character writes its letter
RECURSIVE key_presence_pass_overwrite(_, _, _, _, _, _)
key_presence_pass_overwrite(ks, m, cg, cw, inp, char_idx) ==
    IF char_idx >= Len(inp)
    THEN ks
    ELSE key_presence_pass_overwrite(
            IF ~get_mask(m, cg, char_idx)
               /\ ~(char_idx < Len(cw) /\ cw[char_idx + 1] = inp[char_idx + 1])
            THEN set_letter_state(ks, inp[char_idx + 1],
                     IF contains(cw, inp[char_idx + 1]) THEN "WrongPlace" ELSE "NotInWord")
            ELSE ks,
            m, cg, cw, inp, char_idx + 1)

\* mutant of key_presence_pass: containment tested on the buffer in place of
\* the secret
RECURSIVE key_presence_pass_in_guess(_, _, _, _, _, _)
key_presence_pass_in_guess(ks, m, cg, cw, inp, char_idx) ==
    IF char_idx >= Len(inp)
    THEN ks
    ELSE key_presence_pass_in_guess(
            IF ~get_mask(m, cg, char_idx)
               /\ get_letter_state(ks, inp[char_idx + 1]) = "Unknown"
            THEN set_letter_state(ks, inp[char_idx + 1],
                     IF contains(inp, inp[char_idx + 1]) THEN "WrongPlace" ELSE "NotInWord")
            ELSE ks,
            m, cg, cw, inp, char_idx + 1)

\* run_app, Enter, the second keyboard loop
RECURSIVE key_presence_pass(_, _, _, _, _, _)
key_presence_pass(ks, m, cg, cw, inp, char_idx) ==
    IF char_idx >= Len(inp)
    THEN ks
    ELSE key_presence_pass(
            IF ~get_mask(m, cg, char_idx)
               /\ get_letter_state(ks, inp[char_idx + 1]) = "Unknown"
            THEN set_letter_state(ks, inp[char_idx + 1],
                     IF contains(cw, inp[char_idx + 1]) THEN "WrongPlace" ELSE "NotInWord")
            ELSE ks,
            m, cg, cw, inp, char_idx + 1)

\* mutant of key_update: the first keyboard loop left out
key_update_presence_only(ks, m, cg, cw, inp) ==
    key_presence_pass(ks, m, cg, cw, inp, 0)

\* both keyboard loops of an accepted Enter
key_update(ks, m, cg, cw, inp) ==
    key_presence_pass(key_correct_pass(ks, m, cg, cw, inp, 0), m, cg, cw, inp, 0)

-----------------------------------------------------------------------------
(* run_app: the decisions of the event loop *)

\* mutants of valid_guess: a shorter buffer passes too; every buffer passes
valid_guess_at_most(s) == ByteLen(s) <= WordLen

valid_guess_always(s) == TRUE

\* valid_guess: the buffer's length in bytes is 5
valid_guess(s) == ByteLen(s) = WordLen

\* if app.correct_word == app.input.as_str() { app.state = GameState::Won; }
state_after_compare(st, cw, inp) == IF cw = inp THEN Won ELSE st

\* mutants of state_after_count: the count compared with ROWS; the Won test
\* dropped; the count off by one
state_after_count_rows(st, cg, cw) ==
    IF cg = ROWS /\ st # Won THEN Lost(cw) ELSE st

state_after_count_no_won_test(st, cg, cw) ==
    IF cg = MaxAttempts THEN Lost(cw) ELSE st

state_after_count_early(st, cg, cw) ==
    IF cg = MaxAttempts - 1 /\ st # Won THEN Lost(cw) ELSE st

\* if app.current_guess == 5 && app.state != GameState::Won { ... Lost(..) }
state_after_count(st, cg, cw) ==
    IF cg = MaxAttempts /\ st # Won THEN Lost(cw) ELSE st

\* mutant of char_pushed: the tests of the space and of the buffer's length
\* dropped
char_pushed_any(c, inp, cg) == cg < MaxAttempts

\* KeyCode::Char(c), InProgress: c != ' ' && input.len() < 5 && current_guess < 5
char_pushed(c, inp, cg) == c # " " /\ ByteLen(inp) < WordLen /\ cg < MaxAttempts

\* mutants of char_gate: characters accepted whatever the outcome; never
\* accepted; accepted unless the game is Lost
char_gate_open(st) == TRUE

char_gate_never(st) == FALSE

char_gate_not_lost(st) == st.tag # "Lost"

\* KeyCode::Char(c): the branch taken on app.state
char_gate(st) == st = InProgress

\* KeyCode::Char(c), game over: c == 'q' returns
is_quit(c) == c = "q"

\* an accepted Enter indexes the mask at (current_guess, char_idx) for every
\* character of the buffer and the rows at current_guess: out of range panics
enter_panics(m, gs, cg, inp) ==
    \/ \E char_idx \in 0..(Len(inp) - 1) : mask_out_of_range(m, cg, char_idx)
    \/ cg \notin DOMAIN gs

\* render_active_row: guesses[current_guess].char_states[idx] for the idx of
\* every cell of the row; out of range panics
render_active_row_panics(gs, cg) ==
    \/ cg \notin DOMAIN gs
    \/ \E idx \in 0..(COLUMNS - 1) : idx \notin DOMAIN gs[cg].char_states

\* ui: every row of guesses is drawn into row_chunks[row_index] (ROWS chunks);
\* the row whose index is current_guess is drawn by render_active_row
ui_panics(gs, cg) ==
    \E row_index \in DOMAIN gs :
        \/ row_index >= ROWS
        \/ row_index = cg /\ render_active_row_panics(gs, cg)

-----------------------------------------------------------------------------
(* The driver: the key events crossterm delivers *)

\* the buffers the player types towards: the default secret; a word that
\* differs from it at position 2 only; a word with two-byte characters (3
\* characters in 5 bytes); a word with a repeated letter; one of 5 characters
\* in 6 bytes that starts with the quit key; the secret with its last two
\* letters swapped
WordList ==
    << << "w", "o", "r", "l", "d" >>,
       << "w", "o", "u", "l", "d" >>,
       << "e_acute", "e_grave", "x" >>,
       << "w", "o", "o", "d", "y" >>,
       << "q", "u", "i", "t", "e_acute" >>,
       << "w", "o", "r", "d", "l" >> >>

Typed == { WordList[i] : i \in 1..NumTyped }

IsPrefix(s, w) == Len(s) <= Len(w) /\ s = SubSeq(w, 1, Len(s))

\* the key of a letter pressed with Shift
Shifted(ch) == IF ch \in Letters THEN UpperSeq[LetterIdx(ch) + 1] ELSE ch

\* the keys the player presses with the buffer inp: the space at any time;
\* the next character of a word the buffer is a prefix of, with or without
\* Shift; any key once the buffer is a whole word
KeyTowards(inp, c) ==
    \/ c = " "
    \/ \E w \in Typed :
           /\ IsPrefix(inp, w)
           /\ Len(inp) < Len(w) =>
                  c \in { w[Len(inp) + 1], Shifted(w[Len(inp) + 1]) }

\* KeyCode::Char(c): the characters of the typed words, an uppercase letter,
\* the quit key and the space
Keys == UNION { { w[i] : i \in 1..Len(w) } : w \in Typed } \cup { "W", "q", " " }

Event(ev, c, accepted) == [ev |-> ev, c |-> c, accepted |-> accepted]

-----------------------------------------------------------------------------
(* App::default and the configurations of App *)

\* "world".to_string().to_ascii_lowercase()
DefaultWord == << "w", "o", "r", "l", "d" >>

Secrets == { DefaultWord, << "w", "o", "o", "d", "y" >> }

Masks == { DefaultMask, NoMask }

AppNew(m, cw) ==
    /\ input = << >>
    /\ guesses = [row_idx \in 0..(MaxAttempts - 1) |-> RowNew(m, row_idx)]
    /\ current_guess = 0
    /\ correct_word = cw
    /\ key_status = [k \in 0..(NumLetters - 1) |-> "Unknown"]
    /\ state = InProgress
    /\ mask = m
    /\ pc = "running"
    /\ last = Event("None", "", FALSE)

\* main: run_app(&mut terminal, App::default())
Init == AppNew(DefaultMask, DefaultWord)

\* run_app on an App built like App::default() with another mask or secret
InitCfg == \E m \in Masks, cw \in Secrets : AppNew(m, cw)

-----------------------------------------------------------------------------
(* run_app: one action per key event *)

\* mutant of Enter: Won when the buffer has the secret's character at every
\* unmasked position
Enter_won_on_unmasked ==
    /\ pc = "running"
    /\ IF ~valid_guess(input)
       THEN /\ UNCHANGED <<app_vars, pc>>
            /\ last' = Event("Enter", "", FALSE)
       ELSE IF enter_panics(mask, guesses, current_guess, input)
       THEN /\ pc' = "panicked"
            /\ UNCHANGED app_vars
            /\ last' = Event("Enter", "", TRUE)
       ELSE /\ key_status' = key_update(key_status, mask, current_guess, correct_word, input)
            /\ guesses' = [guesses EXCEPT ![current_guess] =
                               from_current(mask, current_guess, correct_word, input)]
            /\ input' = << >>
            /\ current_guess' = current_guess + 1
            /\ state' = state_after_count(
                            IF \A i \in 1..Len(correct_word) :
                                   \/ get_mask(mask, current_guess, i - 1)
                                   \/ (i <= Len(input) /\ input[i] = correct_word[i])
                            THEN Won ELSE state,
                            current_guess + 1, correct_word)
            /\ UNCHANGED <<correct_word, mask, pc>>
            /\ last' = Event("Enter", "", TRUE)

\* KeyCode::Enter
Enter ==
    /\ pc = "running"
    /\ IF ~valid_guess(input)
       THEN /\ UNCHANGED <<app_vars, pc>>
            /\ last' = Event("Enter", "", FALSE)
       ELSE IF enter_panics(mask, guesses, current_guess, input)
       THEN /\ pc' = "panicked"
            /\ UNCHANGED app_vars
            /\ last' = Event("Enter", "", TRUE)
       ELSE /\ key_status' = key_update(key_status, mask, current_guess, correct_word, input)
            /\ guesses' = [guesses EXCEPT ![current_guess] =
                               from_current(mask, current_guess, correct_word, input)]
            /\ input' = << >>
            /\ current_guess' = current_guess + 1
            /\ state' = state_after_count(
                            state_after_compare(state, correct_word, input),
                            current_guess + 1, correct_word)
            /\ UNCHANGED <<correct_word, mask, pc>>
            /\ last' = Event("Enter", "", TRUE)

\* KeyCode::Char(c).  KeyTowards bounds the driver, not the program: the
\* player presses the keys of a word of Typed, with or without Shift, the
\* space, and any key once the buffer is a whole word.
Char(c) ==
    /\ pc = "running"
    /\ IF char_gate(state)
       THEN /\ IF char_pushed(c, input, current_guess)
               THEN /\ input' = Append(input, to_ascii_lowercase(c))
                    /\ KeyTowards(input, c)
                    /\ last' = Event("Char", c, TRUE)
               ELSE /\ UNCHANGED input
                    /\ last' = Event("Char", c, FALSE)
            /\ UNCHANGED pc
       ELSE /\ pc' = IF is_quit(c) THEN "exited" ELSE pc
            /\ UNCHANGED input
            /\ last' = Event("Char", c, FALSE)
    /\ UNCHANGED <<guesses, correct_word, current_guess, key_status, state, mask>>

\* KeyCode::Backspace
Backspace ==
    /\ pc = "running"
    /\ input' = pop(input)
    /\ last' = Event("Backspace", "", input # << >>)
    /\ UNCHANGED <<guesses, correct_word, current_guess, key_status, state, mask, pc>>

\* KeyCode::Esc
Esc ==
    /\ pc = "running"
    /\ pc' = "exited"
    /\ last' = Event("Esc", "", TRUE)
    /\ UNCHANGED app_vars

\* any other key, or an event that is no key
OtherEvent ==
    /\ pc = "running"
    /\ last' = Event("Other", "", FALSE)
    /\ UNCHANGED <<app_vars, pc>>

Next ==
    \/ Enter
    \/ \E c \in Keys : Char(c)
    \/ Backspace
    \/ Esc
    \/ OtherEvent

Spec == Init /\ [][Next]_vars

SpecCfg == InitCfg /\ [][Next]_vars

TypeOK ==
    /\ current_guess \in 0..MaxAttempts
    /\ pc \in {"running", "exited", "panicked"}
    /\ \A k \in 0..(NumLetters - 1) : key_status[k] \in CharacterState
    /\ \A a \in 0..(MaxAttempts - 1), p \in Positions :
           guesses[a].char_states[p] \in CharacterState

-----------------------------------------------------------------------------
(* Vocabulary of the claims *)

Attempts == 0..(MaxAttempts - 1)

\* the rows submitted so far
Submitted == { a \in Attempts : a < current_guess }

\* no submitted guess equalled the secret
NoRowWins == \A a \in Submitted : guesses[a].guess # correct_word

\* the last event was an Enter that passed valid_guess
JustSubmitted == last.ev = "Enter" /\ last.accepted /\ current_guess > 0

\* what the evaluation rule gives position p of guess g against secret w
Expected(g, w, p) ==
    IF g[p + 1] = w[p + 1] THEN "Correct"
    ELSE IF contains(w, g[p + 1]) THEN "WrongPlace"
    ELSE "NotInWord"

-----------------------------------------------------------------------------
(* C1 *)

\* C1: at every attempt a and position p where the mask is true, the row's
\* CharacterState is Masked, before and after row a is submitted.
C1_MaskedStaysMasked ==
    \A a \in Attempts, p \in Positions :
        get_mask(mask, a, p) => guesses[a].char_states[p] = "Masked"

(* C2 *)

\* C2 as stated: with the default configuration six non-winning submissions
\* are possible; the outcome is InProgress after each of the first five (so
\* whenever fewer than six rows are submitted) and Lost only after the sixth.
C2_SixSubmissions ==
    NoRowWins =>
        /\ current_guess < ROWS => state = InProgress
        /\ state.tag = "Lost" => current_guess = ROWS

\* C2 amended: with the default configuration (five rows, secret "world")
\* the outcome is InProgress after each of the first four non-winning
\* submissions and Lost("world") after the fifth.
C2_FiveSubmissions ==
    NoRowWins =>
        /\ current_guess < MaxAttempts => state = InProgress
        /\ current_guess = MaxAttempts => state = Lost(DefaultWord)

C2_Witness ==
    /\ current_guess = MaxAttempts
    /\ NoRowWins
    /\ \A a \in Attempts : Len(guesses[a].guess) = WordLen
    /\ state = Lost(DefaultWord)
    /\ JustSubmitted

(* C3 *)

\* C3: once the outcome is Won or Lost, no step changes the outcome, the
\* buffer, the attempt index, a row or the keyboard status; the only effect
\* left is ending the session, by Esc or by the character 'q'.
C3_GameOverFrozen ==
    [][ state # InProgress =>
          /\ state' = state
          /\ input' = input
          /\ current_guess' = current_guess
          /\ guesses' = guesses
          /\ key_status' = key_status
          /\ pc' # pc =>
                 /\ pc' = "exited"
                 /\ \/ last'.ev = "Esc"
                    \/ last'.ev = "Char" /\ last'.c = "q" ]_vars

C3_Witness ==
    /\ state.tag = "Won"
    /\ current_guess < MaxAttempts
    /\ last.ev = "Char"
    /\ last.c # "q"
    /\ pc = "running"

(* C4 *)

\* C4: on an accepted submission every unmasked position of the evaluated
\* row is Correct when the guess has the secret's character there, else
\* WrongPlace when the secret contains the character, else NotInWord.
C4_EvaluationRule ==
    \A a \in Submitted, p \in Positions :
        ~get_mask(mask, a, p) =>
            /\ p < Len(guesses[a].guess)
            /\ guesses[a].char_states[p] = Expected(guesses[a].guess, correct_word, p)

(* C5 *)

\* C5: with an all-false mask, a submitted guess equal to the secret gives a
\* row of five Correct states and the outcome Won, on the last attempt too.
C5_ExactGuessWins ==
    \A a \in Submitted :
        (mask = NoMask /\ guesses[a].guess = correct_word) =>
            /\ \A p \in Positions : guesses[a].char_states[p] = "Correct"
            /\ state = Won

C5_Witness ==
    /\ mask = NoMask
    /\ correct_word # DefaultWord
    /\ JustSubmitted
    /\ current_guess = MaxAttempts
    /\ guesses[MaxAttempts - 1].guess = correct_word
    /\ state = Won

(* C6 *)

\* C6: keyboard status is monotonic: a letter that is Correct stays Correct,
\* and a letter that has left Unknown either keeps its status or becomes
\* Correct.
C6_KeyboardMonotonic ==
    [][ \A k \in 0..(NumLetters - 1) :
          /\ key_status[k] = "Correct" => key_status'[k] = "Correct"
          /\ key_status[k] # "Unknown" =>
                 key_status'[k] \in {key_status[k], "Correct"} ]_vars

\* the last submission raised a letter from WrongPlace to Correct
C6_Witness ==
    /\ JustSubmitted
    /\ state = InProgress
    /\ \E c \in Letters :
          /\ get_letter_state(key_status, c) = "Correct"
          /\ \E a \in Submitted, p \in Positions :
                /\ a < current_guess - 1
                /\ p < Len(guesses[a].guess)
                /\ guesses[a].guess[p + 1] = c
                /\ guesses[a].char_states[p] = "WrongPlace"
          /\ \A a \in Submitted, p \in Positions :
                (a < current_guess - 1 /\ p < Len(guesses[a].guess)
                 /\ guesses[a].guess[p + 1] = c)
                    => guesses[a].char_states[p] # "Correct"

(* C7 *)

\* C7: on an accepted submission a letter that occurs in the guess only at
\* positions masked for the current attempt keeps its keyboard status.
C7_MaskedLetterUntouched ==
    [][ (last'.ev = "Enter" /\ last'.accepted /\ current_guess' = current_guess + 1) =>
          \A c \in Letters :
              ( /\ contains(input, c)
                /\ \A i \in 1..Len(input) :
                      input[i] = c => get_mask(mask, current_guess, i - 1) )
              => get_letter_state(key_status', c) = get_letter_state(key_status, c) ]_vars

\* the guess just submitted holds the secret's letter at a masked position,
\* nowhere else, and the letter is still Unknown
C7_Witness ==
    /\ JustSubmitted
    /\ \E p \in Positions :
          LET g == guesses[current_guess - 1].guess
          IN  /\ p < Len(g)
              /\ get_mask(mask, current_guess - 1, p)
              /\ g[p + 1] = correct_word[p + 1]
              /\ \A i \in 1..Len(g) : g[i] = g[p + 1] => i = p + 1
              /\ get_letter_state(key_status, g[p + 1]) = "Unknown"

(* C8 *)

\* C8: a Submit while the buffer holds fewer than 5 characters changes
\* neither the attempt index, the keyboard status, the rows, the outcome nor
\* the buffer.
C8_ShortSubmitIgnored ==
    [][ (last'.ev = "Enter" /\ Len(input) < WordLen) =>
          /\ current_guess' = current_guess
          /\ key_status' = key_status
          /\ guesses' = guesses
          /\ state' = state
          /\ input' = input ]_vars

(* C9 *)

C10_LostOnlyWhenExhausted ==
    state.tag = "Lost" =>
        /\ current_guess = MaxAttempts
        /\ NoRowWins
        /\ state = Lost(correct_word)

C10_Witness ==
    /\ state.tag = "Lost"
    /\ last.ev = "Backspace"

(* C11 *)

\* C11: every submitted row's guessed text has exactly 5 characters.
C11_SubmittedRowsFullLength ==
    \A a \in Submitted : Len(guesses[a].guess) = WordLen

(* C12 *)

\* C12: a character typed while InProgress into a buffer of fewer than 5
\* characters is appended lowercased, a space excepted; a character typed
\* into a buffer of 5 characters, or when the game is over, leaves the
\* buffer unchanged.
C12_CharInput ==
    [][ last'.ev = "Char" =>
          IF state = InProgress /\ Len(input) < WordLen
          THEN input' = IF last'.c = " "
                        THEN input
                        ELSE Append(input, to_ascii_lowercase(last'.c))
          ELSE input' = input ]_vars

(* C13 *)

\* C13: Esc can be taken in every running state and ends the session
\* whatever the outcome; 'q' ends the session exactly when the outcome is
\* Won or Lost, and while InProgress it is ordinary input.
C13_CancelAndQuit ==
    /\ [](pc = "running" => ENABLED Esc)
    /\ [][ /\ last'.ev = "Esc" => pc' = "exited"
           /\ (last'.ev = "Char" /\ last'.c = "q") =>
                  (pc' = "exited" <=> state # InProgress)
           /\ pc' # pc =>
                  (last'.ev = "Esc" \/ (last'.ev = "Char" /\ last'.c = "q")) ]_vars

\* 'q' typed while InProgress went into the buffer
C13_Witness ==
    /\ state = InProgress
    /\ pc = "running"
    /\ last = Event("Char", "q", TRUE)
    /\ input = << "q" >>

(* C14 *)

\* C14: the history is append-only: a row below the attempt index never
\* changes; row k changes only on the accepted Enter taken at attempt index
\* k, which stores the buffer as its text with the evaluated states, empties
\* the buffer and moves the index to k + 1; and that Enter does write row k.
C14_AppendOnly ==
    [][ \A k \in Attempts :
          /\ k < current_guess => guesses'[k] = guesses[k]
          /\ guesses'[k] # guesses[k] =>
                 /\ k = current_guess
                 /\ last'.ev = "Enter"
                 /\ guesses'[k].guess = input
                 /\ \A p \in Positions :
                        guesses'[k].char_states[p] =
                            IF p < Len(input) /\ ~get_mask(mask, k, p)
                            THEN Expected(input, correct_word, p)
                            ELSE "Unknown"
                 /\ input' = << >>
                 /\ current_guess' = k + 1
          /\ (k = current_guess /\ current_guess' # current_guess) =>
                 guesses'[k] # guesses[k] ]_vars

C14_Witness ==
    /\ JustSubmitted
    /\ current_guess = 3
    /\ input = << >>
    /\ guesses[0].guess # guesses[1].guess
    /\ guesses[1].guess # guesses[2].guess

(* C15 *)

\* the unmasked positions of the buffer that hold letter c, at attempt cg
UnmaskedAt(c, cg) ==
    { i \in 0..(Len(input) - 1) : input[i + 1] = c /\ ~get_mask(mask, cg, i) }

\* C15: on an accepted submission a letter that stands at an unmasked
\* position where the secret has it becomes Correct whatever it was; else a
\* letter at an unmasked position that is still Unknown becomes WrongPlace
\* when the secret contains it and NotInWord otherwise; every other letter
\* keeps its status.
C15_KeyboardUpdate ==
    [][ (last'.ev = "Enter" /\ current_guess' = current_guess + 1) =>
          \A c \in Letters :
              get_letter_state(key_status', c) =
                  IF \E i \in UnmaskedAt(c, current_guess) :
                         i < Len(correct_word) /\ correct_word[i + 1] = c
                  THEN "Correct"
                  ELSE IF UnmaskedAt(c, current_guess) # {}
                          /\ get_letter_state(key_status, c) = "Unknown"
                  THEN IF contains(correct_word, c) THEN "WrongPlace" ELSE "NotInWord"
                  ELSE get_letter_state(key_status, c) ]_vars

\* the guess just submitted has a letter Correct at one unmasked position and
\* WrongPlace at another, and the keyboard shows it Correct
C15_Witness ==
    /\ JustSubmitted
    /\ LET row == guesses[current_guess - 1]
       IN  \E p \in Positions, q \in Positions :
               /\ p < Len(row.guess)
               /\ q < Len(row.guess)
               /\ row.guess[p + 1] = row.guess[q + 1]
               /\ row.char_states[p] = "Correct"
               /\ row.char_states[q] = "WrongPlace"
               /\ get_letter_state(key_status, row.guess[p + 1]) = "Correct"

(* C16 *)

\* C16: no lookup is out of range: the loop never panics, drawing never
\* indexes outside the rows, and whenever the buffer would be accepted (5
\* bytes) the attempt index is below the number of rows and every position
\* looked up is below the word length and inside the mask.
C16_NoOutOfRange ==
    /\ pc # "panicked"
    /\ ~ui_panics(guesses, current_guess)
    /\ ByteLen(input) = WordLen =>
           /\ current_guess < MaxAttempts
           /\ current_guess \in DOMAIN guesses
           /\ \A char_idx \in 0..(Len(input) - 1) :
                  /\ char_idx < WordLen
                  /\ ~mask_out_of_range(mask, current_guess, char_idx)

\* an Enter pressed after the last row was submitted was refused
C16_Witness ==
    /\ current_guess = MaxAttempts
    /\ last = Event("Enter", "", FALSE)
    /\ pc = "running"

(* C17 *)

\* C17: the outcome is Won exactly when a submitted row's text equals the
\* secret at every position, masked ones included, and that row is the last
\* one submitted.
C17_WonIffTextEqual ==
    /\ state = Won <=> (\E a \in Submitted : guesses[a].guess = correct_word)
    /\ \A a \in Submitted :
           guesses[a].guess = correct_word => a = current_guess - 1

\* the guess just submitted has the secret's character at every unmasked
\* position and another one at a masked position, and the game goes on
C17_Witness ==
    /\ JustSubmitted
    /\ state = InProgress
    /\ LET a == current_guess - 1
           g == guesses[current_guess - 1].guess
       IN  /\ Len(g) = WordLen
           /\ \A p \in Positions :
                  ~get_mask(mask, a, p) => g[p + 1] = correct_word[p + 1]
           /\ \E p \in Positions :
                  get_mask(mask, a, p) /\ g[p + 1] # correct_word[p + 1]

(* C18 *)

\* C18: a character or a Backspace changes neither the attempt index, a row,
\* the keyboard status nor the outcome; Backspace removes the last character
\* of a non-empty buffer and leaves an empty one empty.
C18_TypingTouchesBufferOnly ==
    [][ last'.ev \in {"Char", "Backspace"} =>
          /\ current_guess' = current_guess
          /\ guesses' = guesses
          /\ key_status' = key_status
          /\ state' = state
          /\ last'.ev = "Backspace" =>
                 input' = IF input = << >>
                          THEN << >>
                          ELSE SubSeq(input, 1, Len(input) - 1) ]_vars

C18_Witness ==
    /\ last = Event("Backspace", "", TRUE)
    /\ current_guess >= 1
    /\ Len(input) >= 2

(* C19 *)

\* C19: while the outcome is InProgress the attempt index is below the
\* number of rows, every row below it is a submitted row and every row at or
\* above it holds its placeholder (Unknown, Masked where the mask is true);
\* when the attempt index equals the number of rows the outcome is Won or
\* Lost.
C19_OneActiveAttempt ==
    /\ state = InProgress =>
           /\ current_guess < MaxAttempts
           /\ \A a \in Attempts :
                  IF a < current_guess
                  THEN /\ guesses[a].guess # << " " >>
                       /\ ByteLen(guesses[a].guess) = WordLen
                  ELSE /\ guesses[a].guess = << " " >>
                       /\ \A p \in Positions :
                              guesses[a].char_states[p] =
                                  IF get_mask(mask, a, p) THEN "Masked" ELSE "Unknown"
    /\ current_guess = MaxAttempts => state # InProgress

C19_Witness ==
    /\ state = InProgress
    /\ current_guess = MaxAttempts - 1
    /\ input # << >>

(* C20 *)

\* C20: whenever the outcome is Won or Lost the buffer is empty.
C20_BufferEmptyWhenOver ==
    state # InProgress => input = << >>

\* a Backspace handled after the game was won
C20_Witness ==
    /\ state = Won
    /\ last.ev = "Backspace"
    /\ input = << >>

(* C21 *)

\* C21: the keyboard status is sound: a letter whose status is Correct or
\* WrongPlace occurs in the secret, a letter whose status is NotInWord does
\* not occur in it, and no letter has the status Masked.
C21_KeyboardSound ==
    \A c \in Letters :
        /\ get_letter_state(key_status, c) \in {"Correct", "WrongPlace"} =>
               contains(correct_word, c)
        /\ get_letter_state(key_status, c) = "NotInWord" => ~contains(correct_word, c)
        /\ get_letter_state(key_status, c) # "Masked"

\* after a submission the keyboard holds a Correct, a WrongPlace and a
\* NotInWord letter
C21_Witness ==
    /\ JustSubmitted
    /\ \E c1, c2, c3 \in Letters :
           /\ get_letter_state(key_status, c1) = "Correct"
           /\ get_letter_state(key_status, c2) = "WrongPlace"
           /\ get_letter_state(key_status, c3) = "NotInWord"

(* C22 *)

\* the letter c stands at an unmasked position of a submitted guess
AppearedUnmasked(c) ==
    \E a \in Submitted : \E p \in Positions :
        /\ p < Len(guesses[a].guess)
        /\ ~get_mask(mask, a, p)
        /\ guesses[a].guess[p + 1] = c

\* C22: rows and keyboard agree: where a submitted row holds the letter c at
\* an unmasked position with state s, the keyboard status of c is Correct if
\* s is Correct, Correct or WrongPlace if s is WrongPlace, NotInWord if s is
\* NotInWord; and the keyboard status of a letter is Unknown exactly when the
\* letter stands at no unmasked position of a submitted guess.
C22_RowsAgreeWithKeyboard ==
    /\ \A a \in Submitted : \A p \in Positions :
           ( /\ p < Len(guesses[a].guess)
             /\ ~get_mask(mask, a, p)
             /\ guesses[a].guess[p + 1] \in Letters ) =>
               LET s == guesses[a].char_states[p]
                   k == get_letter_state(key_status, guesses[a].guess[p + 1])
               IN  /\ s \in {"Correct", "WrongPlace", "NotInWord"}
                   /\ s = "Correct" => k = "Correct"
                   /\ s = "WrongPlace" => k \in {"Correct", "WrongPlace"}
                   /\ s = "NotInWord" => k = "NotInWord"
    /\ \A c \in Letters :
           get_letter_state(key_status, c) = "Unknown" <=> ~AppearedUnmasked(c)

\* a letter is WrongPlace in a submitted row and Correct on the keyboard,
\* and a letter that stood at a masked position only is still Unknown
C22_Witness ==
    /\ \E a \in Submitted : \E p \in Positions :
           /\ p < Len(guesses[a].guess)
           /\ ~get_mask(mask, a, p)
           /\ guesses[a].guess[p + 1] \in Letters
           /\ guesses[a].char_states[p] = "WrongPlace"
           /\ get_letter_state(key_status, guesses[a].guess[p + 1]) = "Correct"
    /\ \E a \in Submitted : \E p \in Positions :
           /\ p < Len(guesses[a].guess)
           /\ get_mask(mask, a, p)
           /\ guesses[a].guess[p + 1] \in Letters
           /\ get_letter_state(key_status, guesses[a].guess[p + 1]) = "Unknown"

(* C23 *)

\* C23: the buffer holds at most 5 characters, no space and no uppercase
\* ASCII letter.
C23_BufferWellFormed ==
    /\ Len(input) <= WordLen
    /\ \A i \in 1..Len(input) :
           /\ input[i] # " "
           /\ ~\E k \in 1..NumLetters : UpperSeq[k] = input[i]

\* the buffer holds 5 characters and the key pressed last, a space, was
\* refused
C23_Witness ==
    /\ Len(input) = WordLen
    /\ input[1] = "w"
    /\ last = Event("Char", " ", FALSE)
    /\ state = InProgress

=============================================================================
